---- MODULE Spec2Model ----
(***************************************************************************)
(* Model of the ingest pipeline of earnings-agent                          *)
(* (src/src/app/services/ingest.py): fetch_to_disk with its tenacity       *)
(* retry wrapper, the idempotency index (_index_load, _index_save,         *)
(* _index_get_recent, _index_put), the content validator and the path      *)
(* builder, over a small file system, a clock and a nondeterministic       *)
(* origin server.                                                          *)
(*                                                                         *)
(* Encodings.                                                              *)
(*  - A header value is a string; the absent header (Python None) is the   *)
(*    string NoneV.  A content-length header is an integer: NoCl for an    *)
(*    absent header, NotDigits for a value str.isdigit() rejects, n >= 0   *)
(*    for the decimal digits of n.                                         *)
(*  - A byte of a document is <<url, i>>: the i-th byte the server sends   *)
(*    for url.  A file of the archive is a sequence of bytes.              *)
(*  - A path of the archive is [ticker, date, base, ext]:                  *)
(*    raw/{ticker}/{date}_{base}{ext}.                                     *)
(*  - The text of an index file is [st, map]: st = "full" for the complete *)
(*    json.dumps of map, "empty" for a file opened for writing and not     *)
(*    yet written, "torn" for bytes of two writers mixed, "malformed" for  *)
(*    any other text json.loads rejects.                                   *)
(*  - An open file descriptor is the name its inode has now, or Orphan     *)
(*    once the inode has no name (unlinked, or replaced by a rename).      *)
(***************************************************************************)
EXTENDS Integers, Sequences, FiniteSets, TLC

VARIABLES
    now,      \* the clock _now_utc() reads
    ttl,      \* IDEMPOTENCY_TTL_SECONDS as configured for this run
    raw,      \* the archive: path -> bytes, for the files that exist
    idx,      \* the index directory: name -> text, for INDEX_FILE and its .tmp
    c,        \* c[p]: the fetch_to_disk call of caller p (locals and position)
    dirs,     \* the per-ticker directories raw/{TICKER} that exist
    last,     \* the last call that returned (its key, result and requests)
    ncalls,   \* calls started so far
    faults,   \* failures the network may still inject (errors and error statuses)
    delta     \* a compute_deltas call: its arguments and what it returned

vars == <<now, ttl, raw, idx, dirs, c, last, ncalls, faults, delta>>

----------------------------------------------------------------------------
(* Bounds of the model *)

MaxTime == 2
MaxCalls == 2
MaxFaults == 3
MaxFaultsConc == 1
DayLen == 3
NProcs == 2
ChunkMax == 2

(* Program constants, scaled: MAX_BYTES from 20 MB to 2 bytes, the default TTL *)
(* from 600 seconds to 1 tick of the clock                                     *)
MAX_BYTES == 2
TTL == 1
STOP_AFTER_ATTEMPT == 3

Procs == 1..NProcs

----------------------------------------------------------------------------
(* Values *)

NoneV == "None"
NoCl == -1
NotDigits == -2
OCTET == "application/octet-stream"

Tickers == {"msft"}
Urls == {"https://a.com/press.html", "https://b.com/press.html", "https://a.com/q3"}

CtHeaders == {NoneV, "Text/HTML; charset=utf-8", "image/png"}
ClHeaders == {NoCl, NotDigits, MAX_BYTES, MAX_BYTES + 1}
ALLOWED_CONTENT_TYPES == {"text/html", "application/pdf"}

INDEX_FILE == "ingest_index.json"
TMP_FILE == "ingest_index.tmp"
Orphan == "orphan"
NoFd == "closed"

NoPath == [ticker |-> "", date |-> 0, base |-> "", ext |-> ""]
NoExc == [type |-> "none", status |-> 0, arg |-> "", at |-> 0]
NoResult == [status |-> "none", path |-> NoPath, content_type |-> "", bytes |-> 0, exc |-> NoExc]
EmptyMap == [x \in {} |-> x]
Hole == <<"", 0>>

(* The documents of the origin servers: the number of bytes each URL serves *)
DocLen(url) ==
    CASE url = "https://a.com/press.html" -> MAX_BYTES
      [] url = "https://b.com/press.html" -> MAX_BYTES + 1
      [] OTHER -> 1

Body(url) == [i \in 1..DocLen(url) |-> <<url, i>>]

Min(a, b) == IF a < b THEN a ELSE b
Max(a, b) == IF a > b THEN a ELSE b

MapPut(m, k, v) == [x \in DOMAIN m \cup {k} |-> IF x = k THEN v ELSE m[x]]
MapDel(m, k) == [x \in DOMAIN m \ {k} |-> m[x]]

(* Python truthiness of an optional header value *)
Truthy(v) == v # NoneV /\ v # ""

----------------------------------------------------------------------------
(* Pure functions of ingest.py *)

(* str.upper() on the tickers of the model *)
Upper(t) == IF t = "msft" THEN "MSFT" ELSE t

(* content_type.split(";")[0].strip().lower() on the header values of the model *)
Normalize(ct) ==
    CASE ct = "Text/HTML; charset=utf-8" -> "text/html"
      [] OTHER -> ct

(* Path(urlparse(url).path).name *)
UrlName(url) ==
    CASE url = "https://a.com/press.html" -> "press.html"
      [] url = "https://b.com/press.html" -> "press.html"
      [] url = "https://a.com/q3" -> "q3"
      [] url = "https://a.com/Q3.HTML" -> "Q3.HTML"
      [] url = "https://a.com/r.htm" -> "r.htm"
      [] url = "https://a.com/r.pdf" -> "r.pdf"
      [] url = "https://a.com/a.html.html" -> "a.html.html"
      [] OTHER -> ""

(* A file name as the sequence of its stem and its dot-suffixes *)
NameTokens(name) ==
    CASE name = "press.html" -> <<"press", ".html">>
      [] name = "q3" -> <<"q3">>
      [] name = "Q3.HTML" -> <<"Q3", ".HTML">>
      [] name = "r.htm" -> <<"r", ".htm">>
      [] name = "r.pdf" -> <<"r", ".pdf">>
      [] name = "a.html.html" -> <<"a", ".html", ".html">>
      [] name = "download" -> <<"download">>
      [] OTHER -> << >>

(* str.lower() on a stem or suffix *)
Lower(tok) ==
    CASE tok = ".HTML" -> ".html"
      [] tok = "Q3" -> "q3"
      [] OTHER -> tok

(* the suffix urlparse(url).path.lower() ends with, among those _get_extension tests *)
UrlLowerSuffix(url) ==
    LET toks == NameTokens(UrlName(url))
        suffix == IF Len(toks) = 0 THEN "" ELSE Lower(toks[Len(toks)])
    IN IF suffix \in {".pdf", ".html", ".htm"} THEN suffix ELSE ""

(* basename.endswith(ext): the comparison is case-sensitive *)
EndsWith(name, ext) ==
    LET toks == NameTokens(name)
    IN Len(toks) > 0 /\ toks[Len(toks)] = ext

_index_key(ticker, url) == <<Upper(ticker), url>>

(* _is_allowed_content_type that lets every type that is given through *)
_is_allowed_content_type_Any(content_type) == Truthy(content_type)

_is_allowed_content_type(content_type) ==
    IF ~Truthy(content_type) THEN FALSE
    ELSE Normalize(content_type) \in ALLOWED_CONTENT_TYPES

(* _get_extension that answers .bin for every given type other than the two *)
_get_extension_BinForOther(content_type, url) ==
    IF Truthy(content_type) /\ Normalize(content_type) = "text/html" THEN ".html"
    ELSE IF Truthy(content_type) /\ Normalize(content_type) = "application/pdf" THEN ".pdf"
    ELSE IF Truthy(content_type) THEN ".bin"
    ELSE IF UrlLowerSuffix(url) = ".pdf" THEN ".pdf"
    ELSE IF UrlLowerSuffix(url) \in {".html", ".htm"} THEN ".html"
    ELSE ".bin"

_get_extension(content_type, url) ==
    IF Truthy(content_type) /\ Normalize(content_type) = "text/html" THEN ".html"
    ELSE IF Truthy(content_type) /\ Normalize(content_type) = "application/pdf" THEN ".pdf"
    ELSE IF UrlLowerSuffix(url) = ".pdf" THEN ".pdf"
    ELSE IF UrlLowerSuffix(url) \in {".html", ".htm"} THEN ".html"
    ELSE ".bin"

(* date.today() *)
Today == now \div DayLen

(* The file name of a path, as the sequence of its stem and dot-suffixes *)
FileTokens(path) ==
    NameTokens(path.base) \o (IF path.ext = "" THEN << >> ELSE <<path.ext>>)

(* build_save_path that appends the extension whatever the basename ends with *)
build_save_path_AlwaysAppends(ticker, url, content_type) ==
    LET basename == IF UrlName(url) = "" THEN "download" ELSE UrlName(url)
    IN [ticker |-> Upper(ticker), date |-> Today, base |-> basename,
        ext |-> _get_extension(content_type, url)]

build_save_path(ticker, url, content_type) ==
    LET basename == IF UrlName(url) = "" THEN "download" ELSE UrlName(url)
        ext == _get_extension(content_type, url)
    IN [ticker |-> Upper(ticker), date |-> Today, base |-> basename,
        ext |-> IF EndsWith(basename, ext) THEN "" ELSE ext]

(* _is_retryable without the 5xx clause *)
_is_retryable_NetworkOnly(exc) == exc.type = "RequestError"

(* _is_retryable without the status range: every HTTP status error is retried *)
_is_retryable_AnyStatus(exc) == exc.type \in {"RequestError", "HTTPStatusError"}

_is_retryable(exc) ==
    \/ exc.type = "RequestError"
    \/ exc.type = "HTTPStatusError" /\ 500 <= exc.status /\ exc.status < 600

Exc(type, status, arg) == [type |-> type, status |-> status, arg |-> arg, at |-> 0]

(* json.dumps(index), and the texts a file can hold besides one *)
Dumps(index) == [st |-> "full", map |-> index]
EmptyText == [st |-> "empty", map |-> EmptyMap]
TornText == [st |-> "torn", map |-> EmptyMap]
MalformedText == [st |-> "malformed", map |-> EmptyMap]

(* json.loads(text): the mapping, or the exception it raises *)
Loads(text) ==
    IF text.st = "full"
    THEN [exc |-> NoExc, map |-> text.map]
    ELSE [exc |-> Exc("JSONDecodeError", 0, text.st), map |-> EmptyMap]

(* _index_load, with a try/except that lets the exception of the load through *)
_index_load_NoCatch ==
    IF INDEX_FILE \in DOMAIN idx
    THEN Loads(idx[INDEX_FILE])
    ELSE [exc |-> NoExc, map |-> EmptyMap]

(* _index_load: the mapping it returns and the exception it raises (never one: *)
(* `except Exception` logs whatever the read or the parse raised)              *)
_index_load ==
    IF INDEX_FILE \in DOMAIN idx /\ Loads(idx[INDEX_FILE]).exc = NoExc
    THEN [exc |-> NoExc, map |-> Loads(idx[INDEX_FILE]).map]
    ELSE [exc |-> NoExc, map |-> EmptyMap]

(* The freshness test with >= for >: an entry aged exactly the TTL is stale *)
Expired_Strict(saved_at) == now - saved_at >= ttl

(* The freshness test against the default TTL instead of the configured one *)
Expired_DefaultTtl(saved_at) == now - saved_at > TTL

(* _now_utc() - saved_at > timedelta(seconds=IDEMPOTENCY_TTL_SECONDS) *)
Expired(saved_at) == now - saved_at > ttl

(* A saved_at text that datetime.fromisoformat rejects *)
Unparsable == 0 - 1

(* _now_utc().isoformat(): the text of an instant; the instant t stands for *)
(* its own text, the round trip through fromisoformat being exact           *)
IsoFormat(t) == t

(* datetime.fromisoformat(text): the instant, or the ValueError *)
FromIso(text) ==
    IF text = Unparsable
    THEN [exc |-> Exc("ValueError", 0, "saved_at"), value |-> 0]
    ELSE [exc |-> NoExc, value |-> text]

(* _index_get_recent without the test that the file is still there *)
_index_get_recent_IgnoresFile(ticker, url) ==
    LET index == _index_load
        key == _index_key(ticker, url)
    IN IF key \notin DOMAIN index.map THEN NoResult
       ELSE LET row == index.map[key] IN
            IF FromIso(row.saved_at).exc # NoExc THEN NoResult
            ELSE IF Expired(FromIso(row.saved_at).value) THEN NoResult
            ELSE [status |-> "ok", path |-> row.saved_path,
                  content_type |-> IF Truthy(row.content_type) THEN row.content_type ELSE OCTET,
                  bytes |-> row.bytes, exc |-> NoExc]

(* _index_get_recent: the cached tuple (status "ok"), None (status "none"), or *)
(* the exception that came out of _index_load (status "raised")                *)
_index_get_recent(ticker, url) ==
    LET index == _index_load
        key == _index_key(ticker, url)
    IN IF index.exc # NoExc THEN [NoResult EXCEPT !.status = "raised", !.exc = index.exc]
       ELSE IF key \notin DOMAIN index.map THEN NoResult
       ELSE LET row == index.map[key] IN
            IF FromIso(row.saved_at).exc # NoExc THEN NoResult
            ELSE IF Expired(FromIso(row.saved_at).value) THEN NoResult
            ELSE IF row.saved_path \notin DOMAIN raw THEN NoResult
            ELSE [status |-> "ok", path |-> row.saved_path,
                  content_type |-> IF Truthy(row.content_type) THEN row.content_type ELSE OCTET,
                  bytes |-> row.bytes, exc |-> NoExc]

----------------------------------------------------------------------------
(* One fetch_to_disk call *)

IdleCall ==
    [pc |-> "idle", ticker |-> "", url |-> "", attempt |-> 0,
     probe |-> "none", ct |-> NoneV, cl |-> NoCl, content_type |-> NoneV,
     save_path |-> NoPath, bytes_written |-> 0, recv |-> 0,
     f |-> "closed", fd |-> NoFd, index |-> EmptyMap, excs |-> << >>, result |-> NoResult,
     gets |-> 0, heads |-> 0, via |-> "none", ext |-> ""]

NoLast ==
    [ticker |-> "", url |-> "", result |-> NoResult, gets |-> 0, saved_at |-> -1]

(* The locals of one attempt, as the function body sets them when it is entered *)
FreshAttempt(r) ==
    [r EXCEPT !.probe = "none", !.ct = NoneV, !.cl = NoCl, !.content_type = NoneV,
              !.save_path = NoPath, !.bytes_written = 0, !.recv = 0,
              !.f = "closed", !.fd = NoFd, !.index = EmptyMap]

(* What the retry wrapper raises once it stops retrying (reraise=True) *)
Reraise(last_exc) == last_exc

(* stop_after_attempt(4) *)
StopAfterAttempt_Four(attempt_number) == attempt_number >= STOP_AFTER_ATTEMPT + 1

(* stop_after_attempt(3) *)
StopAfterAttempt(attempt_number) == attempt_number >= STOP_AFTER_ATTEMPT

(* The tenacity wrapper when attempt r.attempt raised e: retry, or end the call *)
Raised(r, e) ==
    LET ex == [e EXCEPT !.at = r.attempt]
        rr == [r EXCEPT !.excs = Append(@, ex)]
    IN IF ~_is_retryable(ex)
       THEN [rr EXCEPT !.pc = "done",
                !.result = [NoResult EXCEPT !.status = "raised", !.exc = ex]]
       ELSE IF StopAfterAttempt(r.attempt)
       THEN [rr EXCEPT !.pc = "done",
                !.result = [NoResult EXCEPT !.status = "raised", !.exc = Reraise(ex)]]
       ELSE [FreshAttempt(rr) EXCEPT !.pc = "cache", !.attempt = @ + 1]

(* The function returns res; via tells a cache hit from a download *)
Returned(r, res, via) ==
    [r EXCEPT !.pc = "done", !.result = res, !.via = via]

(* A write that ignores the offset of the descriptor and starts at 0 *)
WriteAt_Start(content, off, data) ==
    [i \in 1..Max(Len(content), Len(data)) |->
        IF i <= Len(data) THEN data[i] ELSE content[i]]

(* f.write(data) through a descriptor whose offset is off *)
WriteAt(content, off, data) ==
    [i \in 1..Max(Len(content), off + Len(data)) |->
        IF i > off /\ i <= off + Len(data) THEN data[i - off]
        ELSE IF i <= Len(content) THEN content[i]
        ELSE Hole]

(* save_path.unlink(missing_ok=True) by caller p: the name goes, and the  *)
(* descriptors other callers hold on it are left on an inode with no name *)
Unlink(p, path, rp) ==
    /\ raw' = MapDel(raw, path)
    /\ c' = [q \in Procs |->
              IF q = p THEN rp
              ELSE IF c[q].f = "open" /\ c[q].save_path = path
                   THEN [c[q] EXCEPT !.f = "orphan"]
                   ELSE c[q]]

(* fetch_to_disk(ticker, url) is called *)
Call(p) ==
    /\ c[p].pc = "idle"
    /\ ncalls < MaxCalls
    /\ \E t \in Tickers, u \in Urls :
         c' = [c EXCEPT ![p] = [IdleCall EXCEPT !.pc = "cache", !.ticker = t,
                                                !.url = u, !.attempt = 1]]
    /\ ncalls' = ncalls + 1
    /\ UNCHANGED <<now, ttl, raw, idx, dirs, last, faults, delta>>

(* lines 242-246: the cache check *)
CacheCheck(p) ==
    /\ c[p].pc = "cache"
    /\ LET cached == _index_get_recent(c[p].ticker, c[p].url)
           r == c[p]
       IN c' = [c EXCEPT ![p] = IF cached.status = "raised"
                                THEN Raised(r, cached.exc)
                                ELSE IF cached.status = "ok"
                                THEN Returned(r, cached, "cache")
                                ELSE [r EXCEPT !.pc = "head"]]
    /\ UNCHANGED <<now, ttl, raw, idx, dirs, last, ncalls, faults, delta>>

(* The checks on the probe without the one on the declared size *)
AfterProbe_TypeOnly(r) ==
    IF r.probe = "ok" /\ Truthy(r.ct) /\ ~_is_allowed_content_type(r.ct)
    THEN Raised(r, Exc("IngestUnsupportedType", 0, r.ct))
    ELSE [r EXCEPT !.pc = "get"]

(* The probe's transport error propagated instead of being swallowed *)
AfterProbe_Propagates(r) ==
    IF r.probe = "error"
    THEN Raised(r, Exc("RequestError", 0, "HEAD"))
    ELSE IF r.probe = "ok" /\ Truthy(r.ct) /\ ~_is_allowed_content_type(r.ct)
    THEN Raised(r, Exc("IngestUnsupportedType", 0, r.ct))
    ELSE IF r.cl >= 0 /\ r.cl > MAX_BYTES
    THEN Raised(r, Exc("IngestTooLarge", 0, "Content-Length"))
    ELSE [r EXCEPT !.pc = "get"]

(* lines 261-262 and 266-267: the checks on what the probe reported *)
AfterProbe(r) ==
    IF r.probe = "ok" /\ Truthy(r.ct) /\ ~_is_allowed_content_type(r.ct)
    THEN Raised(r, Exc("IngestUnsupportedType", 0, r.ct))
    ELSE IF r.cl >= 0 /\ r.cl > MAX_BYTES
    THEN Raised(r, Exc("IngestTooLarge", 0, "Content-Length"))
    ELSE [r EXCEPT !.pc = "get"]

(* lines 254-267: the HEAD probe *)
Probe(p) ==
    /\ c[p].pc = "head"
    /\ LET r == [c[p] EXCEPT !.heads = @ + 1] IN
       \/ /\ faults > 0
          /\ faults' = faults - 1
          /\ c' = [c EXCEPT ![p] = AfterProbe([r EXCEPT !.probe = "error"])]
       \/ /\ faults > 0
          /\ faults' = faults - 1
          /\ \E status \in {404, 503} :
               c' = [c EXCEPT ![p] = AfterProbe([r EXCEPT !.probe = "status"])]
       \/ /\ \E hct \in CtHeaders, hcl \in ClHeaders :
               c' = [c EXCEPT ![p] =
                       AfterProbe([r EXCEPT !.probe = "ok", !.ct = hct, !.cl = hcl])]
          /\ UNCHANGED faults
    /\ UNCHANGED <<now, ttl, raw, idx, dirs, last, ncalls, delta>>

(* lines 269-272: the GET request, its status, the final type and the path *)
Transfer(p) ==
    /\ c[p].pc = "get"
    /\ LET r == [c[p] EXCEPT !.gets = @ + 1, !.probe = "none", !.cl = NoCl] IN
       \/ /\ faults > 0
          /\ faults' = faults - 1
          /\ c' = [c EXCEPT ![p] = Raised(r, Exc("RequestError", 0, ""))]
          /\ UNCHANGED dirs
       \/ /\ faults > 0
          /\ faults' = faults - 1
          /\ \E status \in {404, 502} :
               c' = [c EXCEPT ![p] = Raised(r, Exc("HTTPStatusError", status, ""))]
          /\ UNCHANGED dirs
       \/ /\ \E hct \in CtHeaders :
               LET content_type == IF Truthy(hct) THEN hct ELSE r.ct IN
               c' = [c EXCEPT ![p] =
                       [r EXCEPT !.pc = "open", !.content_type = content_type,
                                 !.save_path = build_save_path(r.ticker, r.url, content_type)]]
          /\ dirs' = dirs \cup {Upper(r.ticker)}
          /\ UNCHANGED faults
    /\ UNCHANGED <<now, ttl, raw, idx, last, ncalls, delta>>

(* lines 274-275: open(save_path, "wb") creates or truncates the file *)
OpenFile(p) ==
    /\ c[p].pc = "open"
    /\ raw' = MapPut(raw, c[p].save_path, << >>)
    /\ c' = [c EXCEPT ![p] = [@ EXCEPT !.pc = "stream", !.f = "open", !.bytes_written = 0]]
    /\ UNCHANGED <<now, ttl, idx, dirs, last, ncalls, faults, delta>>

(* The size test off by one: one byte more than the maximum passes *)
ExceedsLimit_OffByOne(bytes_written) == bytes_written > MAX_BYTES + 1

(* line 280: bytes_written > MAX_BYTES *)
ExceedsLimit(bytes_written) == bytes_written > MAX_BYTES

(* lines 276-283: one chunk of resp.iter_bytes() *)
Chunk(p) ==
    /\ c[p].pc = "stream"
    /\ c[p].recv < DocLen(c[p].url)
    /\ \E k \in 0..Min(ChunkMax, DocLen(c[p].url) - c[p].recv) :
         LET r == c[p]
             chunk == [i \in 1..k |-> <<r.url, r.recv + i>>]
             written == r.bytes_written + k
         IN IF k = 0
            THEN UNCHANGED <<raw, c>>
            ELSE IF ExceedsLimit(written)
            THEN Unlink(p, r.save_path,
                        Raised([r EXCEPT !.bytes_written = written, !.f = "closed"],
                               Exc("IngestTooLarge", 0, "Downloaded")))
            ELSE /\ raw' = IF r.f = "open"
                           THEN [raw EXCEPT ![r.save_path] = WriteAt(@, r.bytes_written, chunk)]
                           ELSE raw
                 /\ c' = [c EXCEPT ![p] = [r EXCEPT !.bytes_written = written,
                                                    !.recv = @ + k]]
    /\ UNCHANGED <<now, ttl, idx, dirs, last, ncalls, faults, delta>>

(* resp.iter_bytes() raises a transport error before the body is complete *)
StreamError(p) ==
    /\ c[p].pc = "stream"
    /\ c[p].recv < DocLen(c[p].url)
    /\ faults > 0
    /\ faults' = faults - 1
    /\ c' = [c EXCEPT ![p] = Raised([@ EXCEPT !.f = "closed"], Exc("RequestError", 0, ""))]
    /\ UNCHANGED <<now, ttl, raw, idx, dirs, last, ncalls, delta>>

(* The final type check that raises and leaves the file where it is *)
StreamEnd_KeepsFile(p) ==
    /\ c[p].pc = "stream"
    /\ c[p].recv = DocLen(c[p].url)
    /\ LET r == [c[p] EXCEPT !.f = "closed"] IN
       c' = [c EXCEPT ![p] =
               IF Truthy(r.content_type) /\ r.content_type # r.ct
                  /\ ~_is_allowed_content_type(r.content_type)
               THEN Raised(r, Exc("IngestUnsupportedType", 0, r.content_type))
               ELSE [r EXCEPT !.pc = "put"]]
    /\ UNCHANGED <<now, ttl, raw, idx, dirs, last, ncalls, faults, delta>>

(* lines 285-299: the stream ends, the file is closed, the final type is checked *)
StreamEnd(p) ==
    /\ c[p].pc = "stream"
    /\ c[p].recv = DocLen(c[p].url)
    /\ LET r == [c[p] EXCEPT !.f = "closed"] IN
       IF Truthy(r.content_type) /\ r.content_type # r.ct
          /\ ~_is_allowed_content_type(r.content_type)
       THEN Unlink(p, r.save_path,
                   Raised(r, Exc("IngestUnsupportedType", 0, r.content_type)))
       ELSE /\ c' = [c EXCEPT ![p] = [r EXCEPT !.pc = "put"]]
            /\ UNCHANGED raw
    /\ UNCHANGED <<now, ttl, idx, dirs, last, ncalls, faults, delta>>

ReturnedType(content_type) == IF Truthy(content_type) THEN content_type ELSE OCTET

(* lines 131-137: _index_put loads the index and sets its key *)
IndexPutLoad(p) ==
    /\ c[p].pc = "put"
    /\ LET r == c[p]
           index == _index_load
           row == [saved_path |-> r.save_path,
                   content_type |-> ReturnedType(r.content_type),
                   bytes |-> r.bytes_written, saved_at |-> IsoFormat(now)]
       IN c' = [c EXCEPT ![p] =
                 IF index.exc # NoExc THEN Raised(r, index.exc)
                 ELSE [r EXCEPT !.pc = "save_open",
                          !.index = MapPut(index.map, _index_key(r.ticker, r.url), row)]]
    /\ UNCHANGED <<now, ttl, raw, idx, dirs, last, ncalls, faults, delta>>

(* line 88: tmp.write_text opens the temporary file, creating or truncating it *)
IndexSaveOpen(p) ==
    /\ c[p].pc = "save_open"
    /\ idx' = MapPut(idx, TMP_FILE, EmptyText)
    /\ c' = [c EXCEPT ![p] = [@ EXCEPT !.pc = "save_write", !.fd = TMP_FILE]]
    /\ UNCHANGED <<now, ttl, raw, dirs, last, ncalls, faults, delta>>

(* The texts a write of text at offset 0 can leave in a file holding cur: over *)
(* another writer's longer text, the tail of that text stays behind            *)
Overwrite(cur, text) ==
    IF cur.st = "empty" \/ cur = text THEN {text} ELSE {text, TornText}

(* line 88: tmp.write_text writes json.dumps(index) and closes the file *)
IndexSaveWrite(p) ==
    /\ c[p].pc = "save_write"
    /\ LET r == c[p] IN
       IF r.fd = Orphan
       THEN UNCHANGED idx
       ELSE \E text \in Overwrite(idx[r.fd], Dumps(r.index)) :
              idx' = [idx EXCEPT ![r.fd] = text]
    /\ c' = [c EXCEPT ![p] = [@ EXCEPT !.pc = "save_replace", !.fd = NoFd]]
    /\ UNCHANGED <<now, ttl, raw, dirs, last, ncalls, faults, delta>>

(* A descriptor after tmp was renamed over INDEX_FILE *)
FdAfterReplace(fd) ==
    IF fd = INDEX_FILE THEN Orphan
    ELSE IF fd = TMP_FILE THEN INDEX_FILE
    ELSE fd

(* line 89 and lines 301-309: tmp.replace(INDEX_FILE), then the return *)
IndexSaveReplace(p) ==
    /\ c[p].pc = "save_replace"
    /\ LET r == c[p] IN
       IF TMP_FILE \notin DOMAIN idx
       THEN /\ c' = [c EXCEPT ![p] = Raised(r, Exc("FileNotFoundError", 0, TMP_FILE))]
            /\ UNCHANGED idx
       ELSE /\ idx' = [n \in {INDEX_FILE} |-> idx[TMP_FILE]]
            /\ c' = [q \in Procs |->
                      IF q = p
                      THEN Returned(r, [status |-> "ok", path |-> r.save_path,
                                        content_type |-> ReturnedType(r.content_type),
                                        bytes |-> r.bytes_written, exc |-> NoExc],
                                    "download")
                      ELSE [c[q] EXCEPT !.fd = FdAfterReplace(@)]]
    /\ UNCHANGED <<now, ttl, raw, dirs, last, ncalls, faults, delta>>

(* The call is over: its caller has the result or the exception *)
Return(p) ==
    /\ c[p].pc = "done"
    /\ LET r == c[p]
           key == _index_key(r.ticker, r.url)
       IN last' = [ticker |-> r.ticker, url |-> r.url,
                   result |-> IF r.result.status = "ok" THEN r.result
                              ELSE [NoResult EXCEPT !.status = "raised"],
                   gets |-> r.gets,
                   saved_at |-> IF key \in DOMAIN _index_load.map
                                THEN _index_load.map[key].saved_at ELSE -1]
    /\ c' = [c EXCEPT ![p] = IdleCall]
    /\ UNCHANGED <<now, ttl, raw, idx, dirs, ncalls, faults, delta>>

(* Time passes.  The clock is read by the cache check, by build_save_path and *)
(* by _index_put: time that passes elsewhere shows at the next of these.      *)
Tick ==
    /\ now < MaxTime
    /\ \E p \in Procs : c[p].pc \in {"cache", "get", "put"}
    /\ now' = now + 1
    /\ UNCHANGED <<ttl, raw, idx, dirs, c, last, ncalls, faults, delta>>

Step(p) ==
    \/ Call(p)
    \/ CacheCheck(p)
    \/ Probe(p)
    \/ Transfer(p)
    \/ OpenFile(p)
    \/ Chunk(p)
    \/ StreamError(p)
    \/ StreamEnd(p)
    \/ IndexPutLoad(p)
    \/ IndexSaveOpen(p)
    \/ IndexSaveWrite(p)
    \/ IndexSaveReplace(p)
    \/ Return(p)

----------------------------------------------------------------------------
(* delta.py.  An Optional[float] is [kind, v]: kind "none" for None, "num"   *)
(* for the number v; a percentage is a number of hundredths of a percent, as *)
(* round(x, 2) leaves two decimals; "error" is a raised ZeroDivisionError.   *)

NoneF == [kind |-> "none", v |-> 0]
Num(n) == [kind |-> "num", v |-> n]
DivError == [kind |-> "error", v |-> 0]

(* round(n / d) for d # 0: the nearest integer, a tie going to the even one *)
RoundDiv(n, d) ==
    LET nn == IF d < 0 THEN -n ELSE n
        dd == IF d < 0 THEN -d ELSE d
        q == nn \div dd
        r == nn - q * dd
    IN IF 2 * r < dd THEN q
       ELSE IF 2 * r > dd THEN q + 1
       ELSE IF q % 2 = 0 THEN q ELSE q + 1

(* _pct_change without the test on a zero prior *)
_pct_change_NoZeroTest(current, prior) ==
    IF current.kind = "none" \/ prior.kind = "none" THEN NoneF
    ELSE IF prior.v = 0 THEN DivError
    ELSE Num(RoundDiv((current.v - prior.v) * 10000, prior.v))

(* delta.py lines 27-32 *)
_pct_change(current, prior) ==
    IF current.kind = "none" \/ prior.kind = "none" THEN NoneF
    ELSE IF prior.v = 0 THEN NoneF
    ELSE Num(RoundDiv((current.v - prior.v) * 10000, prior.v))

(* A Headline, and the absent baseline (None): (baseline or {}).get(field) *)
NoHeadline == [revenue |-> NoneF, eps_diluted |-> NoneF]

(* delta.py lines 35-54 *)
compute_deltas(current, yoy_baseline, qoq_baseline) ==
    [revenue_yoy_pct |-> _pct_change(current.revenue, yoy_baseline.revenue),
     revenue_qoq_pct |-> _pct_change(current.revenue, qoq_baseline.revenue),
     eps_yoy_pct |-> _pct_change(current.eps_diluted, yoy_baseline.eps_diluted),
     eps_qoq_pct |-> _pct_change(current.eps_diluted, qoq_baseline.eps_diluted)]

NoResultD ==
    [revenue_yoy_pct |-> NoneF, revenue_qoq_pct |-> NoneF,
     eps_yoy_pct |-> NoneF, eps_qoq_pct |-> NoneF]

NoDelta ==
    [pc |-> "idle", current |-> NoHeadline, yoy_baseline |-> NoHeadline,
     qoq_baseline |-> NoHeadline, result |-> NoResultD]

(* The amounts of the model: absent, negative, zero, positive *)
Amounts == {NoneF, Num(0 - 2), Num(0), Num(3)}

Headlines == [revenue : Amounts, eps_diluted : Amounts]

(* compute_deltas(current, yoy_baseline, qoq_baseline) is called and returns *)
ComputeDeltas ==
    /\ delta.pc = "call"
    /\ delta' = [delta EXCEPT !.pc = "returned",
                              !.result = compute_deltas(delta.current, delta.yoy_baseline,
                                                        delta.qoq_baseline)]
    /\ UNCHANGED <<now, ttl, raw, idx, dirs, c, last, ncalls, faults>>

----------------------------------------------------------------------------
(* Specifications *)

Start(t, text, f) ==
    /\ now = 0
    /\ ttl = t
    /\ raw = EmptyMap
    /\ idx = text
    /\ dirs = {}
    /\ c = [p \in Procs |-> IdleCall]
    /\ last = NoLast
    /\ ncalls = 0
    /\ faults = f
    /\ delta = NoDelta

(* Sequential use with the configured TTL: one caller, one call at a time, *)
(* from an empty data directory                                            *)
Init == Start(TTL, EmptyMap, MaxFaults)

Next == Tick \/ Step(1)

Spec == Init /\ [][Next]_vars

(* Sequential use with INGEST_IDEMPOTENCY_TTL_SECONDS=0 *)
InitTtl0 == Start(0, EmptyMap, MaxFaults)

SpecTtl0 == InitTtl0 /\ [][Next]_vars

(* Sequential use from an index file whose text does not parse *)
InitCorrupt == Start(TTL, [n \in {INDEX_FILE} |-> MalformedText], MaxFaults)

SpecCorrupt == InitCorrupt /\ [][Next]_vars

(* Concurrent use: every caller (a thread of the serving layer) runs its own call *)
InitConc == Start(TTL, EmptyMap, MaxFaultsConc)

NextConc == Tick \/ \E p \in Procs : Step(p)

SpecConc == InitConc /\ [][NextConc]_vars

(* The order of str on the basenames of the model: none is a prefix of another *)
BaseRank(base) ==
    CASE base = "Q3.HTML" -> 1
      [] base = "a.html.html" -> 2
      [] base = "download" -> 3
      [] base = "press.html" -> 4
      [] base = "q3" -> 5
      [] base = "r.htm" -> 6
      [] base = "r.pdf" -> 7
      [] OTHER -> 0

(* The order of str on the appended extensions *)
ExtRank(ext) ==
    CASE ext = ".bin" -> 1
      [] ext = ".html" -> 2
      [] ext = ".pdf" -> 3
      [] OTHER -> 0

(* a <= b for two paths of one folder, as sorted() compares them: by the *)
(* characters of YYYYMMDD_basename                                       *)
PathLeq(a, b) ==
    \/ a.date < b.date
    \/ a.date = b.date /\ BaseRank(a.base) < BaseRank(b.base)
    \/ a.date = b.date /\ a.base = b.base /\ ExtRank(a.ext) <= ExtRank(b.ext)

(* extract.py lines 14-21: latest_file_for_ticker(ticker) *)
latest_file_for_ticker(ticker) ==
    LET folder == Upper(ticker)
        glob == {path \in DOMAIN raw :
                   /\ path.ticker = folder
                   /\ FileTokens(path)[Len(FileTokens(path))] = ".html"}
    IN IF folder \notin dirs
       THEN [NoResult EXCEPT !.status = "raised",
                             !.exc = Exc("HTTPException", 404, "No raw data")]
       ELSE IF glob = {}
       THEN [NoResult EXCEPT !.status = "raised",
                             !.exc = Exc("HTTPException", 404, "No HTML files found")]
       ELSE [NoResult EXCEPT !.status = "ok",
                             !.path = CHOOSE path \in glob :
                                         \A other \in glob : PathLeq(other, path)]

(* main.py lines 43-46: an extraction is requested for a ticker *)
Extract(p) ==
    /\ c[p].pc = "idle"
    /\ \E t \in Tickers :
         c' = [c EXCEPT ![p] = [IdleCall EXCEPT !.pc = "latest", !.ticker = t,
                                                !.result = latest_file_for_ticker(t)]]
    /\ UNCHANGED <<now, ttl, raw, idx, dirs, last, ncalls, faults, delta>>

(* The extraction request is answered *)
ExtractDone(p) ==
    /\ c[p].pc = "latest"
    /\ c' = [c EXCEPT ![p] = IdleCall]
    /\ UNCHANGED <<now, ttl, raw, idx, dirs, last, ncalls, faults, delta>>

(* Sequential use, with extraction requests between the fetches *)
NextExtract == Next \/ Extract(1) \/ ExtractDone(1)

SpecExtract == Init /\ [][NextExtract]_vars

(* get_recent on its own: _index_get_recent applied to index files that hold *)
(* no entry, an entry of another key, or an entry of the key with a saved_at *)
(* that parses or not, with the archived file present or removed             *)
RecentUrl == "https://a.com/press.html"

RecentPath == build_save_path("msft", RecentUrl, "Text/HTML; charset=utf-8")

RecentRows ==
    [saved_path : {RecentPath}, content_type : {"text/html", ""},
     bytes : {MAX_BYTES}, saved_at : {Unparsable} \cup (0..MaxTime)]

RecentIndexes ==
    {EmptyMap, [n \in {INDEX_FILE} |-> Dumps(EmptyMap)]}
      \cup {[n \in {INDEX_FILE} |-> Dumps([k \in {key} |-> row])] :
               key \in {_index_key("msft", RecentUrl), _index_key("msft", "https://a.com/q3")},
               row \in RecentRows}

(* lines 105-125: _index_get_recent(ticker, url) is called and returns *)
GetRecent(p) ==
    /\ c[p].pc = "recent"
    /\ c' = [c EXCEPT ![p] = [@ EXCEPT !.pc = "recent_done",
                                       !.result = _index_get_recent(c[p].ticker, c[p].url)]]
    /\ UNCHANGED <<now, ttl, raw, idx, dirs, last, ncalls, faults, delta>>

InitRecent ==
    /\ now \in 0..MaxTime
    /\ ttl \in {0, TTL}
    /\ raw \in {EmptyMap, [path \in {RecentPath} |-> Body(RecentUrl)]}
    /\ idx \in RecentIndexes
    /\ dirs = {"MSFT"}
    /\ c = [p \in Procs |->
              IF p = 1
              THEN [IdleCall EXCEPT !.pc = "recent", !.ticker = "msft", !.url = RecentUrl]
              ELSE IdleCall]
    /\ last = NoLast
    /\ ncalls = 0
    /\ faults = 0
    /\ delta = NoDelta

NextRecent == GetRecent(1)

SpecRecent == InitRecent /\ [][NextRecent]_vars

(* The delta calculator on its own, applied to every current headline and *)
(* pair of baselines of the model                                         *)
InitDelta ==
    /\ now = 0
    /\ ttl = TTL
    /\ raw = EmptyMap
    /\ idx = EmptyMap
    /\ dirs = {}
    /\ c = [p \in Procs |-> IdleCall]
    /\ last = NoLast
    /\ ncalls = 0
    /\ faults = 0
    /\ \E cur \in Headlines, yoy \in Headlines, qoq \in Headlines :
         delta = [NoDelta EXCEPT !.pc = "call", !.current = cur,
                                 !.yoy_baseline = yoy, !.qoq_baseline = qoq]

NextDelta == ComputeDeltas

SpecDelta == InitDelta /\ [][NextDelta]_vars

(* The path builder on its own: build_save_path and _get_extension applied to *)
(* a ticker, a URL and an optional content type                              *)
PathUrls ==
    Urls \cup {"https://a.com/", "https://a.com/Q3.HTML", "https://a.com/r.htm",
               "https://a.com/r.pdf", "https://a.com/a.html.html"}

PathTypes == CtHeaders \cup {"", "application/pdf"}

(* lines 184-191: build_save_path(ticker, url, content_type) is called *)
BuildSavePath(p) ==
    /\ c[p].pc = "build"
    /\ c' = [c EXCEPT ![p] =
               [@ EXCEPT !.pc = "built",
                         !.save_path = build_save_path(c[p].ticker, c[p].url,
                                                       c[p].content_type)]]
    /\ dirs' = dirs \cup {Upper(c[p].ticker)}
    /\ UNCHANGED <<now, ttl, raw, idx, last, ncalls, faults, delta>>

(* lines 167-181: _get_extension(content_type, url) is called *)
GetExtension(p) ==
    /\ c[p].pc \in {"build", "built"}
    /\ c[p].ext = ""
    /\ c' = [c EXCEPT ![p] = [@ EXCEPT !.ext = _get_extension(c[p].content_type, c[p].url)]]
    /\ UNCHANGED <<now, ttl, raw, idx, dirs, last, ncalls, faults, delta>>

InitPath ==
    /\ now \in 0..MaxTime
    /\ ttl = TTL
    /\ raw = EmptyMap
    /\ idx = EmptyMap
    /\ dirs = {}
    /\ \E t \in Tickers, u \in PathUrls, ct \in PathTypes :
         c = [p \in Procs |->
                IF p = 1
                THEN [IdleCall EXCEPT !.pc = "build", !.ticker = t, !.url = u,
                                      !.content_type = ct]
                ELSE IdleCall]
    /\ last = NoLast
    /\ ncalls = 0
    /\ faults = 0
    /\ delta = NoDelta

NextPath == BuildSavePath(1) \/ GetExtension(1)

SpecPath == InitPath /\ [][NextPath]_vars

----------------------------------------------------------------------------
(* Claims.  In the sequential specifications caller 1 makes the calls. *)

(* A transport-level error, or an HTTP 5xx status of the transfer *)
Transient(e) ==
    \/ e.type = "RequestError"
    \/ e.type = "HTTPStatusError" /\ e.status \in 500..599

Done == c[1].pc = "done"
Ok == c[1].result.status = "ok"
Failed == c[1].result.status = "raised"

(* The call of caller 1 has the (ticker, url) of the last call, which succeeded *)
RepeatsLastSuccess ==
    /\ last.result.status = "ok"
    /\ c[1].ticker = last.ticker
    /\ c[1].url = last.url

(* C1, as stated: two successive calls with the same (ticker, url), the first *)
(* successful and the second within the TTL window, perform exactly one GET   *)
(* in total, and the second returns the first's tuple without any request.    *)
C1_ExactlyOneTransfer ==
    (Done /\ RepeatsLastSuccess /\ now - last.saved_at <= ttl)
        => /\ c[1].result = last.result
           /\ c[1].gets = 0
           /\ c[1].heads = 0
           /\ last.gets + c[1].gets = 1

(* C1, amended: when the cache check of a call comes within the TTL window of   *)
(* a successful call with the same (ticker, url), the call returns at once the  *)
(* tuple of that call, having issued no HEAD and no GET and written nothing:    *)
(* the two calls perform the GETs of the first alone.                           *)
C1_SecondCallFromCache ==
    [][(/\ c[1].pc = "cache"
        /\ c[1].attempt = 1
        /\ RepeatsLastSuccess
        /\ now - last.saved_at <= ttl
        /\ c'[1] # c[1])
          => /\ c'[1].pc = "done"
             /\ c'[1].result = last.result
             /\ c'[1].gets = 0
             /\ c'[1].heads = 0
             /\ UNCHANGED <<raw, idx>>]_vars

(* C1, witness: a call served from the cache the call before it filled *)
C1_Witness ==
    /\ Done /\ RepeatsLastSuccess
    /\ c[1].via = "cache"
    /\ c[1].result = last.result
    /\ last.gets = 1

C3_DownloadPostcondition ==
    (Done /\ Ok /\ c[1].via = "download")
        => LET res == c[1].result IN
           /\ res.path \in DOMAIN raw
           /\ res.path.ticker = "MSFT"
           /\ res.path.ticker \in dirs
           /\ raw[res.path] = Body(c[1].url)
           /\ res.bytes = Len(raw[res.path])

(* C3, witness: a download of a document received in more than one chunk *)
C3_Witness ==
    /\ Done /\ Ok /\ c[1].via = "download"
    /\ c[1].result.bytes = MAX_BYTES
    /\ raw[c[1].result.path] = Body(c[1].url)

(* C4: no file of the archive ever holds more than MAX_BYTES bytes; a transfer *)
(* whose byte count exceeds MAX_BYTES ends the call at that chunk with         *)
(* TooLarge and no file at the destination; TooLarge is raised during a        *)
(* transfer for no other payload, so one of exactly MAX_BYTES passes.          *)
C4_SizeEnforcement ==
    /\ \A path \in DOMAIN raw : Len(raw[path]) <= MAX_BYTES
    /\ c[1].bytes_written > MAX_BYTES
         => /\ Done /\ Failed
            /\ c[1].result.exc.type = "IngestTooLarge"
            /\ c[1].result.exc.at = c[1].attempt
            /\ c[1].save_path \notin DOMAIN raw
    /\ (Done /\ c[1].result.exc = [Exc("IngestTooLarge", 0, "Downloaded") EXCEPT !.at = c[1].attempt])
         => c[1].bytes_written > MAX_BYTES
    /\ (Done /\ Ok /\ c[1].via = "download") => c[1].result.bytes <= MAX_BYTES

(* C4, witness: a transfer cut at the chunk that crossed the limit *)
C4_Witness ==
    /\ Done /\ Failed
    /\ c[1].result.exc.type = "IngestTooLarge"
    /\ c[1].bytes_written = MAX_BYTES + 1
    /\ c[1].save_path # NoPath
    /\ c[1].save_path \notin DOMAIN raw

(* C5: a call makes at most 3 attempts, and when 3 attempts failed it ends *)
(* with the exception of the third.                                        *)
C5_BoundedRetry ==
    /\ c[1].attempt <= 3
    /\ Len(c[1].excs) <= 3
    /\ (Done /\ Len(c[1].excs) = 3)
         => /\ Failed
            /\ c[1].result.exc = c[1].excs[3]
            /\ c[1].result.exc.at = 3

(* C5, witness: three attempts failed, the last one otherwise than the first *)
C5_Witness ==
    /\ Done /\ Len(c[1].excs) = 3
    /\ Transient(c[1].excs[3])
    /\ c[1].excs[1].type # c[1].excs[3].type

(* C6: a call does not end on a transient failure while attempts are left,   *)
(* and a call that succeeds after failed attempts returns a path that        *)
(* exists, after one attempt more than failed; when that attempt downloaded, *)
(* the file is the document and byte_count its length.                       *)
C6_RetryThenSuccess ==
    /\ (Done /\ Failed /\ Transient(c[1].result.exc)) => c[1].attempt = 3
    /\ (Done /\ Ok /\ Len(c[1].excs) >= 1)
         => /\ c[1].attempt = Len(c[1].excs) + 1
            /\ c[1].attempt >= 2
            /\ \A i \in 1..Len(c[1].excs) : Transient(c[1].excs[i])
            /\ c[1].result.path \in DOMAIN raw
            /\ c[1].via = "download"
                 => /\ raw[c[1].result.path] = Body(c[1].url)
                    /\ c[1].result.bytes = Len(Body(c[1].url))

(* C6, witness: a 502 on the first attempt, the document on the second *)
C6_Witness ==
    /\ Done /\ Ok /\ c[1].via = "download"
    /\ c[1].attempt = 2
    /\ c[1].excs[1].type = "HTTPStatusError" /\ c[1].excs[1].status = 502

(* C7: every attempt after the first follows an attempt that failed on a      *)
(* transport error or a 5xx status of the transfer; any other failure ends    *)
(* the call at once, with that exception.                                     *)
C7_OnlyTransientRetried ==
    /\ \A i \in 1..(c[1].attempt - 1) :
          i <= Len(c[1].excs) /\ Transient(c[1].excs[i])
    /\ \A i \in 1..Len(c[1].excs) :
          ~Transient(c[1].excs[i])
            => /\ Done /\ Failed
               /\ i = c[1].attempt
               /\ c[1].result.exc = c[1].excs[i]
               /\ c[1].excs[i].type \in {"HTTPStatusError", "IngestTooLarge", "IngestUnsupportedType"}
               /\ c[1].excs[i].type = "HTTPStatusError" => c[1].excs[i].status \in 400..499

(* C7, witness: a 404 on the second attempt ends the call *)
C7_Witness ==
    /\ Done /\ Failed
    /\ c[1].attempt = 2
    /\ c[1].result.exc.status = 404

(* C8, as stated: in every reachable state, puts of concurrent fetches in   *)
(* progress included, the index file on disk holds a complete valid index:  *)
(* never an empty, truncated or mixed text.                                 *)
C8_IndexNeverTorn ==
    INDEX_FILE \in DOMAIN idx => idx[INDEX_FILE].st = "full"

(* C9: an index file that does not parse raises nothing and serves no call:   *)
(* the call probes and transfers, and a call that succeeds leaves a complete  *)
(* index holding its record.                                                  *)
C9_CorruptIndexIsMiss ==
    /\ c[1].result.exc.type # "JSONDecodeError"
    /\ \A i \in 1..Len(c[1].excs) : c[1].excs[i].type # "JSONDecodeError"
    /\ (INDEX_FILE \in DOMAIN idx /\ idx[INDEX_FILE].st # "full") => c[1].via # "cache"
    /\ (Done /\ Ok /\ c[1].via = "download")
         => /\ INDEX_FILE \in DOMAIN idx
            /\ idx[INDEX_FILE].st = "full"
            /\ <<"MSFT", c[1].url>> \in DOMAIN idx[INDEX_FILE].map
            /\ LET row == idx[INDEX_FILE].map[<<"MSFT", c[1].url>>] IN
               /\ row.saved_path = c[1].result.path
               /\ row.content_type = c[1].result.content_type
               /\ row.bytes = c[1].result.bytes

(* C9, witness: the first call, made on the malformed index, downloaded and *)
(* stored its record                                                        *)
C9_Witness ==
    /\ Done /\ Ok /\ c[1].via = "download"
    /\ ncalls = 1
    /\ idx[INDEX_FILE].st = "full"

(* C10: once a probe answered with a disallowed type or a declared size over *)
(* MAX_BYTES, the call is over with UnsupportedType (of that type) or        *)
(* TooLarge, raised by that attempt, which sent no GET and opened no file.   *)
C10_ProbeRejection ==
    LET r == c[1]
        badType == r.ct \notin {NoneV, "Text/HTML; charset=utf-8"}
        badSize == r.cl > MAX_BYTES
    IN (r.probe = "ok" /\ (badType \/ badSize))
        => /\ Done /\ Failed
           /\ r.result.exc.at = r.attempt
           /\ r.result.exc.type = IF badType THEN "IngestUnsupportedType" ELSE "IngestTooLarge"
           /\ badType => r.result.exc.arg = r.ct
           /\ r.gets = r.attempt - 1
           /\ r.save_path = NoPath

(* C10, witness: a probe answered image/png, and the call ended without a GET *)
C10_Witness ==
    /\ Done /\ Failed
    /\ c[1].probe = "ok" /\ c[1].ct = "image/png"
    /\ c[1].result.exc.type = "IngestUnsupportedType"
    /\ c[1].gets = 0 /\ c[1].heads = 1

(* The transfer of caller 1 answered with a type that is not the probed one *)
(* and is outside the allowed set                                           *)
FinalTypeRejected ==
    /\ c[1].content_type = "image/png"
    /\ c[1].content_type # c[1].ct

(* C11: when a transfer has completed with a final type that differs from   *)
(* the probed type (or the probe gave none) and is not allowed, the call    *)
(* ends there with UnsupportedType carrying that type, the file written is  *)
(* gone, and the index is untouched: no call with such a type ever reaches  *)
(* the index put or returns a result.                                       *)
C11_PostTransferTypeCheck ==
    /\ [][(/\ c[1].pc = "stream"
            /\ c[1].recv = DocLen(c[1].url)
            /\ FinalTypeRejected
            /\ c'[1] # c[1])
              => /\ c'[1].pc = "done"
                 /\ c'[1].result.status = "raised"
                 /\ c'[1].result.exc.type = "IngestUnsupportedType"
                 /\ c'[1].result.exc.arg = c[1].content_type
                 /\ c'[1].result.exc.at = c[1].attempt
                 /\ c[1].save_path \in DOMAIN raw
                 /\ c[1].save_path \notin DOMAIN raw'
                 /\ idx' = idx]_vars
    /\ [](FinalTypeRejected
            => /\ c[1].pc \in {"open", "stream", "done"}
               /\ c[1].result.status # "ok")

(* C11, witness: a completed transfer of type image/png after a probe that *)
(* reported an allowed type; the call failed and the file is gone          *)
C11_Witness ==
    /\ Done /\ Failed
    /\ c[1].ct = "Text/HTML; charset=utf-8"
    /\ c[1].content_type = "image/png"
    /\ c[1].result.exc.type = "IngestUnsupportedType"
    /\ c[1].bytes_written = DocLen(c[1].url)
    /\ c[1].save_path \notin DOMAIN raw

(* The name ends in one of the three extensions, written twice *)
DoubledSuffix(toks) ==
    /\ Len(toks) >= 2
    /\ toks[Len(toks)] \in {".html", ".pdf", ".bin"}
    /\ toks[Len(toks) - 1] = toks[Len(toks)]

Built == c[1].pc = "built"

(* C12, as stated: for every ticker, URL and optional content type the file  *)
(* name is {YYYYMMDD}_{basename}, ends in exactly one of .html, .pdf, .bin   *)
(* and never ends in a doubled suffix such as .html.html.                    *)
C12_NeverDoubledSuffix ==
    Built
      => LET toks == FileTokens(c[1].save_path) IN
         /\ c[1].save_path.date = Today
         /\ Len(toks) >= 1
         /\ toks[Len(toks)] \in {".html", ".pdf", ".bin"}
         /\ ~DoubledSuffix(toks)

(* C12, amended: the file name is {YYYYMMDD}_{basename}, where the basename  *)
(* is the last component of the URL path (or "download") followed by at most *)
(* one extension; it ends in exactly one of .html, .pdf, .bin; and it ends   *)
(* in a doubled suffix only when the URL's own basename already does.        *)
C12_BuilderNeverDoubles ==
    Built
      => LET toks == FileTokens(c[1].save_path)
             name == IF UrlName(c[1].url) = "" THEN "download" ELSE UrlName(c[1].url)
             stem == NameTokens(name)
         IN
         /\ c[1].save_path.date = Today
         /\ c[1].save_path.ticker = "MSFT"
         /\ Len(toks) \in {Len(stem), Len(stem) + 1}
         /\ \A i \in 1..Len(stem) : toks[i] = stem[i]
         /\ toks[Len(toks)] \in {".html", ".pdf", ".bin"}
         /\ DoubledSuffix(toks) => DoubledSuffix(stem)

(* C12, witness: a basename that ends with the chosen extension is kept as is *)
C12_Witness ==
    /\ Built
    /\ c[1].url = "https://a.com/press.html"
    /\ c[1].content_type = "Text/HTML; charset=utf-8"
    /\ FileTokens(c[1].save_path) = <<"press", ".html">>

(* The files of the ticker of caller 1 that latest_file can select *)
HtmlFiles ==
    {path \in DOMAIN raw :
       path.ticker = "MSFT" /\ (path.ext = ".html" \/ (path.ext = "" /\ path.base = "press.html"))}

(* C13, as stated: after fetches that all succeeded (no failure was injected *)
(* and the last call archived an HTML document), latest_file returns the     *)
(* file written by the most recent fetch; and it fails with NotFound exactly *)
(* when the ticker has no directory or no HTML files.                        *)
C13_LatestIsMostRecent ==
    c[1].pc = "latest"
      => /\ (c[1].result.status = "raised")
              <=> ("MSFT" \notin dirs \/ HtmlFiles = {})
         /\ c[1].result.status = "raised" => c[1].result.exc.status = 404
         /\ (/\ last.result.status = "ok"
             /\ last.result.path \in HtmlFiles
             /\ faults = MaxFaults)
              => c[1].result.path = last.result.path

(* What the claim says of one percentage: null when an input is absent or   *)
(* the prior is zero, and otherwise the change in percent to two decimals   *)
(* (pct is a number of hundredths: its product with the prior is nearest to *)
(* 10000 times the difference)                                              *)
PctOf(pct, current, prior) ==
    IF current.kind = "none" \/ prior.kind = "none" \/ prior.v = 0
    THEN pct = NoneF
    ELSE /\ pct.kind = "num"
         /\ LET err == pct.v * prior.v - 10000 * (current.v - prior.v)
                abs == IF prior.v < 0 THEN 0 - prior.v ELSE prior.v
            IN 2 * err <= abs /\ 2 * err >= 0 - abs

(* C14: each of the four percentages is the pct_change of its own pair of  *)
(* inputs, whatever the other three are: null when an input of the pair is *)
(* absent or its prior is zero (never an error of the division), the       *)
(* rounded change otherwise.                                               *)
C14_PctChangeNullSafe ==
    delta.pc = "returned"
      => /\ PctOf(delta.result.revenue_yoy_pct, delta.current.revenue, delta.yoy_baseline.revenue)
         /\ PctOf(delta.result.revenue_qoq_pct, delta.current.revenue, delta.qoq_baseline.revenue)
         /\ PctOf(delta.result.eps_yoy_pct, delta.current.eps_diluted, delta.yoy_baseline.eps_diluted)
         /\ PctOf(delta.result.eps_qoq_pct, delta.current.eps_diluted, delta.qoq_baseline.eps_diluted)

(* C14, witness: a zero yoy revenue baseline and a missing qoq eps give two *)
(* nulls, and the other two percentages are numbers                         *)
C14_Witness ==
    /\ delta.pc = "returned"
    /\ delta.current = [revenue |-> Num(3), eps_diluted |-> Num(3)]
    /\ delta.yoy_baseline = [revenue |-> Num(0), eps_diluted |-> Num(0 - 2)]
    /\ delta.qoq_baseline = [revenue |-> Num(3), eps_diluted |-> NoneF]
    /\ delta.result = [revenue_yoy_pct |-> NoneF, revenue_qoq_pct |-> Num(0),
                       eps_yoy_pct |-> Num(0 - 25000), eps_qoq_pct |-> NoneF]

(* The index file as get_recent would load it *)
IndexNow == _index_load.map

(* The attempt of caller 1 received the whole document within the size limit *)
(* and its final type was not rejected                                       *)
FullSuccess ==
    /\ c[1].recv = DocLen(c[1].url)
    /\ c[1].bytes_written = DocLen(c[1].url)
    /\ c[1].bytes_written <= MAX_BYTES
    /\ c[1].content_type # "image/png"
    /\ c[1].save_path \in DOMAIN raw
    /\ raw[c[1].save_path] = Body(c[1].url)

(* C15: the index directory changes only inside the put of a call whose     *)
(* download completed and passed the size and type checks; the index file   *)
(* itself changes only in the step that ends such a call successfully, and  *)
(* then by the record of its key alone; every such call ends with its       *)
(* record stored.  So a call that fails, and a cache hit, leave the index   *)
(* file as it was.                                                          *)
C15_IndexOnlyOnFullSuccess ==
    /\ [][idx' # idx => c[1].pc \in {"save_open", "save_write", "save_replace"}]_vars
    /\ [][(INDEX_FILE \in DOMAIN idx' /\ (INDEX_FILE \notin DOMAIN idx
                                             \/ idx'[INDEX_FILE] # idx[INDEX_FILE]))
            => /\ c[1].pc = "save_replace"
               /\ c'[1].pc = "done"
               /\ c'[1].result.status = "ok"
               /\ c'[1].via = "download"
               /\ idx'[INDEX_FILE].st = "full"
               /\ LET key == <<"MSFT", c[1].url>>
                      after == idx'[INDEX_FILE].map
                  IN /\ DOMAIN after = DOMAIN IndexNow \cup {key}
                     /\ \A k \in DOMAIN IndexNow \ {key} : after[k] = IndexNow[k]
                     /\ after[key].saved_path = c'[1].result.path
                     /\ after[key].bytes = c'[1].result.bytes]_vars
    /\ [](c[1].pc \in {"put", "save_open", "save_write", "save_replace"} => FullSuccess)
    /\ []((Done /\ FullSuccess)
            => /\ Ok
               /\ c[1].via = "download"
               /\ <<"MSFT", c[1].url>> \in DOMAIN IndexNow
               /\ IndexNow[<<"MSFT", c[1].url>>].saved_path = c[1].result.path)
    /\ []((Done /\ Ok /\ c[1].via = "download") => FullSuccess)

(* C15, witness: a second call failed with TooLarge and the index still holds *)
(* the record of the first call and nothing for the key of the second         *)
C15_Witness ==
    /\ Done /\ Failed
    /\ c[1].result.exc.type = "IngestTooLarge"
    /\ last.result.status = "ok"
    /\ DOMAIN IndexNow = {<<"MSFT", last.url>>}
    /\ c[1].url # last.url

(* The entry of the index file under the key MSFT|url of caller 1, if any *)
HasEntry ==
    /\ INDEX_FILE \in DOMAIN idx
    /\ idx[INDEX_FILE].st = "full"
    /\ <<"MSFT", c[1].url>> \in DOMAIN idx[INDEX_FILE].map

Entry == idx[INDEX_FILE].map[<<"MSFT", c[1].url>>]

(* C16: get_recent returns the stored record if and only if an entry exists *)
(* under TICKER|url, its saved_at parses, now - saved_at is at most the TTL *)
(* and the file at saved_path exists; otherwise it returns none and raises  *)
(* nothing.                                                                 *)
C16_GetRecentIff ==
    c[1].pc = "recent_done"
      => LET hit == /\ HasEntry
                    /\ Entry.saved_at # Unparsable
                    /\ now - Entry.saved_at <= ttl
                    /\ Entry.saved_path \in DOMAIN raw
         IN /\ c[1].result.status = (IF hit THEN "ok" ELSE "none")
            /\ hit => /\ c[1].result.path = Entry.saved_path
                      /\ c[1].result.bytes = Entry.bytes
                      /\ c[1].result.content_type \in {Entry.content_type, OCTET}
                      /\ c[1].result.content_type # ""
            /\ ~hit => c[1].result = NoResult

(* C16, witness: an entry aged exactly the TTL, its file present, is returned *)
C16_Witness ==
    /\ c[1].pc = "recent_done"
    /\ ttl = TTL
    /\ HasEntry
    /\ now - Entry.saved_at = ttl
    /\ c[1].result.status = "ok"

(* C17: a probe that fails with a transport error or answers with a status of *)
(* 400 or above neither fails the call nor starts a retry: the same attempt   *)
(* goes on to the transfer, nothing raised, with the probed type and size     *)
(* unknown.                                                                   *)
C17_BestEffortProbe ==
    /\ [][(c[1].pc = "head" /\ faults' = faults - 1)
            => /\ c'[1].pc = "get"
               /\ c'[1].probe \in {"error", "status"}
               /\ c'[1].attempt = c[1].attempt
               /\ c'[1].excs = c[1].excs
               /\ c'[1].gets = c[1].gets
               /\ c'[1].ct = NoneV
               /\ c'[1].cl = NoCl
               /\ raw' = raw /\ idx' = idx]_vars
    /\ [](c[1].probe \in {"error", "status"}
            => c[1].pc = "get" /\ c[1].ct = NoneV /\ c[1].cl = NoCl)

(* C17, witness: the probe of a retried attempt failed and the attempt is at *)
(* its transfer                                                             *)
C17_Witness ==
    /\ c[1].pc = "get"
    /\ c[1].probe = "error"
    /\ c[1].attempt = 2

(* The extension the URL path suffix stands for, compared in lower case *)
ExtOfUrl(url) ==
    LET toks == NameTokens(UrlName(url))
        suffix == IF Len(toks) = 0 THEN "" ELSE Lower(toks[Len(toks)])
    IN CASE suffix = ".pdf" -> ".pdf"
         [] suffix \in {".html", ".htm"} -> ".html"
         [] OTHER -> ".bin"

(* The extension a content type stands for by itself, "" if it names neither *)
(* HTML nor PDF                                                              *)
ExtOfType(ct) ==
    CASE ct \in {"Text/HTML; charset=utf-8", "text/html"} -> ".html"
      [] ct = "application/pdf" -> ".pdf"
      [] OTHER -> ""

Given(ct) == ct \notin {NoneV, ""}

(* C18, as stated: when a content type is given the extension is .html for  *)
(* text/html, .pdf for application/pdf and .bin for every other type,       *)
(* regardless of the URL; only when the type is absent is the extension     *)
(* inferred from the URL path suffix.                                       *)
C18_ExtensionByTypeWhenGiven ==
    c[1].ext # ""
      => c[1].ext = (IF ~Given(c[1].content_type) THEN ExtOfUrl(c[1].url)
                     ELSE IF ExtOfType(c[1].content_type) # ""
                     THEN ExtOfType(c[1].content_type)
                     ELSE ".bin")

(* C18, amended: the extension is .html for text/html and .pdf for          *)
(* application/pdf regardless of the URL; when the type is absent or names  *)
(* any other type, the extension is inferred from the URL path suffix       *)
(* (.pdf, .html/.htm in any letter case, else .bin).                        *)
C18_ExtensionFallsBackToUrl ==
    c[1].ext # ""
      => c[1].ext = (IF Given(c[1].content_type) /\ ExtOfType(c[1].content_type) # ""
                     THEN ExtOfType(c[1].content_type)
                     ELSE ExtOfUrl(c[1].url))

(* C18, witness: a type that is neither HTML nor PDF, given for a URL that *)
(* ends in .html, gets the extension of the URL                            *)
C18_Witness ==
    /\ c[1].content_type = "image/png"
    /\ c[1].url = "https://a.com/press.html"
    /\ c[1].ext = ".html"

(* Caller p is at the end of a call whose transfer succeeded: the call went *)
(* on to _index_put with its own record                                    *)
TransferSucceeded(p) ==
    /\ c[p].pc = "done"
    /\ c[p].via # "cache"
    /\ _index_key(c[p].ticker, c[p].url) \in DOMAIN c[p].index

(* C19, as stated: when two concurrent calls for different keys both        *)
(* transferred their document, both return successfully and the index is a *)
(* valid mapping that holds the record of at least one of them (the last   *)
(* writer's); a missing record of the other key is the only damage.        *)
C19_LastWriterWins ==
    (/\ TransferSucceeded(1)
     /\ TransferSucceeded(2)
     /\ c[1].url # c[2].url)
      => /\ c[1].result.status = "ok"
         /\ c[2].result.status = "ok"
         /\ INDEX_FILE \in DOMAIN idx
         /\ idx[INDEX_FILE].st = "full"
         /\ \E p \in Procs :
               _index_key(c[p].ticker, c[p].url) \in DOMAIN idx[INDEX_FILE].map

(* The callers that hold destination path open for writing *)
Writers(path) == {p \in Procs : c[p].f = "open" /\ c[p].save_path = path}

(* C20, as stated: at every moment at most one call has a given destination *)
(* path open for writing, also when several fetches of one ticker run       *)
(* concurrently on the same day.                                            *)
C20_SingleWriterPerPath ==
    \A path \in DOMAIN raw : Cardinality(Writers(path)) <= 1

(* The file at path holds no whole document of any URL: it is a truncated *)
(* (or empty) download                                                   *)
Truncated(path) == \A u \in Urls : raw[path] # Body(u)

(* C21, as stated: when a call has ended with an error its destination path *)
(* does not hold a truncated document, and latest_file never returns a     *)
(* truncated file.                                                         *)
C21_NoPartialFile ==
    /\ (Done /\ Failed /\ c[1].save_path \in DOMAIN raw)
          => ~Truncated(c[1].save_path)
    /\ (c[1].pc = "latest" /\ c[1].result.status = "ok")
          => ~Truncated(c[1].result.path)

(* C22, as stated: when the call before succeeded and archived its document, *)
(* a call that fails leaves that file present with its content unchanged.    *)
C22_FailedFetchPreservesArchive ==
    (Done /\ Failed /\ last.result.status = "ok")
      => /\ last.result.path \in DOMAIN raw
         /\ raw[last.result.path] = Body(last.url)

(* The records of the index file, none if it is absent or does not parse *)
Records == _index_load.map

(* The record under key is fresh and its file exists *)
Serving(key) ==
    /\ key \in DOMAIN Records
    /\ FromIso(Records[key].saved_at).exc = NoExc
    /\ ~Expired(FromIso(Records[key].saved_at).value)
    /\ Records[key].saved_path \in DOMAIN raw

(* C23, as stated: between sequential calls, every fresh index record whose *)
(* file exists describes that file: the file has the recorded byte count    *)
(* and is the document of the record's URL; two records of different keys   *)
(* never point to the same saved_path.                                      *)
C23_IndexDescribesArchive ==
    c[1].pc = "idle"
      => /\ \A key \in DOMAIN Records :
               Serving(key)
                 => /\ Len(raw[Records[key].saved_path]) = Records[key].bytes
                    /\ raw[Records[key].saved_path] = Body(key[2])
         /\ \A k1, k2 \in DOMAIN Records :
               k1 # k2 => Records[k1].saved_path # Records[k2].saved_path

(* C24, as stated: whenever a call returns successfully from a download, the *)
(* content type it returns, which is the one it stored in the index, is in   *)
(* the allowed set after stripping parameters and lower-casing.              *)
C24_OnlyAllowedTypesArchived ==
    (Done /\ Ok /\ c[1].via = "download")
      => /\ Normalize(c[1].result.content_type) \in ALLOWED_CONTENT_TYPES
         /\ \A key \in DOMAIN c[1].index :
               Normalize(c[1].index[key].content_type) \in ALLOWED_CONTENT_TYPES

====
